---- MODULE Spec2Model ----
(***************************************************************************)
(* Model of the dual-mode data-access layer of the Express server:         *)
(* src/src/db.ts (connectDB, getDBState), src/src/server.ts (the four      *)
(* /api/users and /api/tasks handlers, the startup chain) and the Task     *)
(* schema of src/unnamed/part_000.                                         *)
(*                                                                         *)
(* A JavaScript string is a sequence of characters, a JSON body field is a *)
(* tagged value [t, v].  An async handler runs atomically up to its next   *)
(* await; a request suspended on a store call sits in the bag inflight.    *)
(* A store call takes effect when it completes: it succeeds when the       *)
(* driver is connected at that moment and rejects otherwise.               *)
(***************************************************************************)
EXTENDS Integers, Sequences, FiniteSets, Bags, TLC

\* ------------------------------------------------------------------ bounds
MaxInFlight == 2
MaxDocs == 2
MaxClock == 1

\* ------------------------------------------------------------ JSON values
Undefined == [t |-> "undefined", v |-> <<>>]
Str(s) == [t |-> "string", v |-> s]
Num5 == [t |-> "number", v |-> <<"5">>]

WhiteSpace == {" "}

\* The title values a POST /api/tasks body is given.
TitleInputs ==
  {Undefined, Str(<<>>), Str(<<" ">>), Str(<<"a">>), Str(<<" ", "a">>), Num5}

\* The name and email values a POST /api/users body is given.
NameInputs == {Undefined, Str(<<"n">>)}
EmailInputs == {Undefined, Str(<<" ">>), Str(<<"e">>)}

\* JavaScript truthiness of a body field.
Truthy(x) ==
  CASE x.t = "undefined" -> FALSE
    [] x.t = "string" -> x.v # <<>>
    [] OTHER -> TRUE

\* Only strings have a trim method.
HasTrim(x) == x.t = "string"

RECURSIVE TrimStart(_)
TrimStart(s) ==
  IF s # <<>> /\ Head(s) \in WhiteSpace THEN TrimStart(Tail(s)) ELSE s

RECURSIVE TrimEnd(_)
TrimEnd(s) ==
  IF s # <<>> /\ s[Len(s)] \in WhiteSpace
  THEN TrimEnd(SubSeq(s, 1, Len(s) - 1))
  ELSE s

\* String.prototype.trim
Trim(s) == TrimEnd(TrimStart(s))

VARIABLES
  proc,        \* "start", "connecting", "resolved", "listening", "crashed"
  uriSet,      \* MONGO_URI or DATABASE_URL is configured
  connResult,  \* how connectDB() settled: "pending", "module", "null", "throw"
  readyState,  \* mongoose.connection.readyState
  tasks,       \* the tasks collection, in insertion order
  users,       \* the users collection, in insertion order
  now,         \* the last value the wall clock returned
  inflight,    \* bag of requests suspended on a store call
  resp,        \* the request the last step ended, with its response
  lastRaw      \* the title, as submitted, of the task stored last

vars ==
  <<proc, uriSet, connResult, readyState, tasks, users, now, inflight, resp, lastRaw>>

\* --------------------------------------------------------------- db.ts
stateMap(rs) ==
  CASE rs = 0 -> "disconnected"
    [] rs = 1 -> "connected"
    [] rs = 2 -> "connecting"
    [] rs = 3 -> "disconnecting"
    [] OTHER -> "unknown"

getDBState == [readyState |-> readyState, state |-> stateMap(readyState)]

Connected == getDBState.state = "connected"

\* What connectDB's catch block settles the promise with.
ConnectFailRethrows == "throw"

ConnectFailResult == "null"

\* How the connection attempt of a configured URI has ended (db.ts 16-28).
NoUri == ~uriSet /\ connResult = "null"
AttemptFailed == uriSet /\ connResult \in {"null", "throw"}
AttemptSucceeded == connResult = "module"

\* ----------------------------------------------------- requests, responses
NoBody == [title |-> Undefined, name |-> Undefined, email |-> Undefined]

NoResponse ==
  [kind |-> "none", title |-> Undefined, name |-> Undefined,
   email |-> Undefined, status |-> 0, payload |-> <<>>, conn |-> FALSE,
   io |-> 0, wrote |-> FALSE, escaped |-> FALSE, after |-> FALSE, up |-> FALSE]

\* The response of a request of `kind` with body `b`: res.status(st).json(pl).
\* conn: the handler saw state = connected; io: store calls it issued;
\* wrote: it inserted a document; after: see Follows; up: the driver was
\* connected when the response was sent.
Respond(kind, b, st, pl, conn, io, wrote, after) ==
  [kind |-> kind, title |-> b.title, name |-> b.name,
   email |-> b.email, status |-> st, payload |-> pl, conn |-> conn, io |-> io,
   wrote |-> wrote, escaped |-> FALSE, after |-> after, up |-> Connected]

\* The request ends with no response sent by its handler: the exception left it.
Escape(kind, b, st, pl) ==
  [Respond(kind, b, st, pl, FALSE, 0, FALSE, FALSE) EXCEPT !.escaped = TRUE]

\* A handler suspended at an await.
Suspend(pc, kind, b, after, stamp) ==
  [pc |-> pc, kind |-> kind, title |-> b.title, name |-> b.name,
   email |-> b.email, after |-> after, stamp |-> stamp]

BodyOf(r) == [title |-> r.title, name |-> r.name, email |-> r.email]

\* The suspended requests of `kind`.
Pending(kind) ==
  LET S == {r \in BagToSet(inflight) : r.kind = kind}
  IN BagCardinality([r \in S |-> inflight[r]])

\* The documents the database holds.
Stored == Len(tasks) + Len(users)

Add(r) == inflight (+) SetToBag({r})
Remove(r) == inflight (-) SetToBag({r})

\* (Bookkeeping for the claims, read by no handler decision.)
\* The request follows a create of the same user that answered 201: in
\* fallback mode the response just sent is such a create's, which saw the
\* fallback too; when connected, the store holds a user with the email (each one
\* stored by a create that answered 201).
Follows(b) ==
  IF Connected
  THEN \E i \in 1..Len(users) : users[i].email = b.email.v
  ELSE /\ resp.kind = "PU" /\ resp.status = 201 /\ ~resp.conn
       /\ resp.name = b.name /\ resp.email = b.email

\* The app accepts connections once app.listen has been called.
AcceptingBeforeResolve ==
  proc \in {"start", "connecting", "resolved", "listening"}

Accepting == proc = "listening"

\* Date.now(): the clock never runs backwards; two reads may return the same
\* millisecond.
ClockReads == {t \in {now, now + 1} : t <= MaxClock}

\* ---------------------------------------------------------------- startup
Init ==
  /\ proc = "start"
  /\ uriSet \in BOOLEAN
  /\ connResult = "pending"
  /\ readyState = 0
  /\ tasks = <<>>
  /\ users = <<>>
  /\ now = 0
  /\ inflight = EmptyBag
  /\ resp = NoResponse
  /\ lastRaw = Undefined

\* connectDB() up to its await: no URI resolves null at once, else
\* mongoose.connect starts and the driver is connecting.
ConnectDBStart ==
  /\ proc = "start"
  /\ IF ~uriSet
     THEN /\ connResult' = "null"
          /\ proc' = "resolved"
          /\ UNCHANGED readyState
     ELSE /\ readyState' = 2
          /\ proc' = "connecting"
          /\ UNCHANGED connResult
  /\ resp' = NoResponse
  /\ UNCHANGED <<uriSet, tasks, users, now, inflight, lastRaw>>

\* mongoose.connect resolves: connectDB returns mongoose.
ConnectSucceed ==
  /\ proc = "connecting"
  /\ readyState' = 1
  /\ connResult' = "module"
  /\ proc' = "resolved"
  /\ resp' = NoResponse
  /\ UNCHANGED <<uriSet, tasks, users, now, inflight, lastRaw>>

\* mongoose.connect rejects (timeout, auth, network): the catch block logs.
ConnectFail ==
  /\ proc = "connecting"
  /\ readyState' = 0
  /\ connResult' = ConnectFailResult
  /\ proc' = "resolved"
  /\ resp' = NoResponse
  /\ UNCHANGED <<uriSet, tasks, users, now, inflight, lastRaw>>

\* connectDB().then(listen).catch(listen): both branches call app.listen.
StartServer ==
  /\ proc = "resolved"
  /\ proc' = "listening"
  /\ resp' = NoResponse
  /\ UNCHANGED <<uriSet, connResult, readyState, tasks, users, now, inflight, lastRaw>>

\* The driver reports that an established connection dropped.
DriverDrop ==
  /\ proc \in {"resolved", "listening"}
  /\ readyState = 1
  /\ readyState' = 0
  /\ resp' = NoResponse
  /\ UNCHANGED <<proc, uriSet, connResult, tasks, users, now, inflight, lastRaw>>

\* The driver re-establishes a connection that had been established once.
DriverReconnect ==
  /\ proc \in {"resolved", "listening"}
  /\ AttemptSucceeded
  /\ readyState = 0
  /\ readyState' = 1
  /\ resp' = NoResponse
  /\ UNCHANGED <<proc, uriSet, connResult, tasks, users, now, inflight, lastRaw>>

\* ---------------------------------------------------------- the two stores
\* TaskSchema: title is a trimmed String, completed defaults to false,
\* timestamps: true stamps createdAt (updatedAt carries the same value).
TaskDoc(id, title, stamp) ==
  [id |-> id, title |-> Trim(title.v), completed |-> FALSE, createdAt |-> stamp]

\* The user document UserModel.create({name, email}) stores (its createdAt,
\* which no handler compares, is left out).
UserDoc(id, name, email) ==
  [id |-> id, name |-> name.v, email |-> email.v]

\* sort({createdAt: 1}): oldest first.
SortedAscending(s) ==
  \A i \in 1..Len(s) - 1 : s[i].createdAt <= s[i + 1].createdAt

\* sort({createdAt: -1}): newest first.
SortedDescending(s) ==
  \A i \in 1..Len(s) - 1 : s[i].createdAt >= s[i + 1].createdAt

Reorderings(s) ==
  LET n == Len(s)
      P == {f \in [1..n -> 1..n] : \A i, j \in 1..n : i # j => f[i] # f[j]}
  IN {[i \in 1..n |-> s[f[i]]] : f \in P}

\* TaskModel.find().sort({createdAt: -1}).lean(): the store fixes no order
\* among documents of equal createdAt.
FindTasks == {s \in Reorderings(tasks) : SortedDescending(s)}

\* UserModel.find().select('-__v').lean()
FindUsers == users

\* UserModel.findOne({email}) never finds anything.
FindOneMisses(email) == FALSE

\* UserModel.findOne({email}).lean() is not null.
FindOneUser(email) == \E i \in 1..Len(users) : users[i].email = email.v

\* ------------------------------------------------------ handler decisions
\* The fallback list grows by the task the last fallback create echoed.
FallbackTaskListRetaining ==
  LET mock == <<[title |-> <<"Define TypeScript interfaces (Mock)">>, completed |-> TRUE],
                [title |-> <<"Create React components (Mock)">>, completed |-> FALSE]>>
  IN IF resp.kind = "PT" /\ resp.status = 201 /\ ~resp.conn
     THEN mock \o resp.payload
     ELSE mock

FallbackTaskList ==
  <<[title |-> <<"Define TypeScript interfaces (Mock)">>, completed |-> TRUE],
    [title |-> <<"Create React components (Mock)">>, completed |-> FALSE]>>

FallbackUserList ==
  <<[id |-> 1, name |-> <<"John Doe">>, email |-> <<"john@example.com">>],
    [id |-> 2, name |-> <<"Jane Smith">>, email |-> <<"jane@example.com">>],
    [id |-> 3, name |-> <<"Bob Johnson">>, email |-> <<"bob@example.com">>]>>

\* if (!title) return 400, without trimming.
TitleCheckNoTrim(title) ==
  IF ~Truthy(title) THEN "reject"
  ELSE IF ~HasTrim(title) THEN "throw"
  ELSE "ok"

\* if (!title || !title.trim()) return 400: calling trim on a value that has
\* none throws a TypeError, outside the try block.
TitleCheck(title) ==
  IF ~Truthy(title) THEN "reject"
  ELSE IF ~HasTrim(title) THEN "throw"
  ELSE IF ~Truthy(Str(Trim(title.v))) THEN "reject"
  ELSE "ok"

\* if (!name || !email) return 400
UserCheck(name, email) ==
  IF ~Truthy(name) \/ ~Truthy(email) THEN "reject" ELSE "ok"

ErrorText(kind) ==
  CASE kind = "GU" -> "Failed to fetch users"
    [] kind = "GT" -> "Failed to fetch tasks"
    [] kind = "PT" -> "Failed to create task"
    [] kind = "PU" -> "Failed to create user"

\* The catch block answers with the fallback data.
OnStoreErrorFallsBack(kind) ==
  [status |-> IF kind \in {"GU", "GT"} THEN 200 ELSE 201,
   payload |-> IF kind = "GU" THEN FallbackUserList ELSE FallbackTaskList]

\* catch (err) { return res.status(500).json({error}) }
OnStoreError(kind) ==
  [status |-> 500, payload |-> <<[error |-> ErrorText(kind)]>>]

\* The insert is refused when the email is stored already.
AfterCreateUserRechecks(r) ==
  IF FindOneUser(r.email) THEN "conflict" ELSE "insert"

\* After findOne found nothing, create inserts with no second lookup.
AfterCreateUser(r) == "insert"

\* What becomes of a promise an async handler rejects with: Express 4 leaves
\* it unhandled (the request hangs, and Node ends the process on an unhandled
\* rejection unless told otherwise); Express 5 passes it to the error
\* middleware, which answers 500.
RejectionOutcomes == {"hang", "crash", "errorMiddleware"}

\* The users collection has no unique index on email: uniqueness is the
\* handler's lookup-before-insert only.
UniqueEmailIndex == FALSE

ErrorMiddleware == <<[error |-> "Something went wrong!"]>>

\* ------------------------------------------------------------ GET /api/users
GetUsers ==
  /\ Accepting
  /\ IF Connected
     THEN /\ BagCardinality(inflight) < MaxInFlight
          /\ inflight' = Add(Suspend("find", "GU", NoBody, FALSE, 0))
          /\ resp' = NoResponse
     ELSE /\ resp' = Respond("GU", NoBody, 200, FallbackUserList, FALSE, 0, FALSE, FALSE)
          /\ UNCHANGED inflight
  /\ UNCHANGED <<proc, uriSet, connResult, readyState, tasks, users, now, lastRaw>>

FindUsersDone(r) ==
  /\ r.kind = "GU" /\ r.pc = "find"
  /\ inflight' = Remove(r)
  /\ resp' = IF Connected
             THEN Respond("GU", BodyOf(r), 200, FindUsers, TRUE, 1, FALSE, r.after)
             ELSE LET e == OnStoreError("GU")
                  IN Respond("GU", BodyOf(r), e.status, e.payload, TRUE, 1, FALSE, r.after)
  /\ UNCHANGED <<proc, uriSet, connResult, readyState, tasks, users, now, lastRaw>>

\* ------------------------------------------------------------ GET /api/tasks
GetTasks ==
  /\ Accepting
  /\ IF Connected
     THEN /\ BagCardinality(inflight) < MaxInFlight
          /\ inflight' = Add(Suspend("find", "GT", NoBody, FALSE, 0))
          /\ resp' = NoResponse
     ELSE /\ resp' = Respond("GT", NoBody, 200, FallbackTaskList, FALSE, 0, FALSE, FALSE)
          /\ UNCHANGED inflight
  /\ UNCHANGED <<proc, uriSet, connResult, readyState, tasks, users, now, lastRaw>>

FindTasksDone(r) ==
  /\ r.kind = "GT" /\ r.pc = "find"
  /\ inflight' = Remove(r)
  /\ IF Connected
     THEN \E found \in FindTasks :
            resp' = Respond("GT", BodyOf(r), 200, found, TRUE, 1, FALSE, r.after)
     ELSE LET e == OnStoreError("GT")
          IN resp' = Respond("GT", BodyOf(r), e.status, e.payload, TRUE, 1, FALSE, r.after)
  /\ UNCHANGED <<proc, uriSet, connResult, readyState, tasks, users, now, lastRaw>>

\* ----------------------------------------------------------- POST /api/tasks
PostTasks(title) ==
  LET b == [NoBody EXCEPT !.title = title]
      check == TitleCheck(title)
  IN
  /\ Accepting
  /\ CASE check = "reject" ->
            /\ resp' = Respond("PT", b, 400, <<[error |-> "Title required"]>>,
                               FALSE, 0, FALSE, FALSE)
            /\ UNCHANGED <<proc, inflight, now, readyState>>
       [] check = "throw" ->
            \E o \in RejectionOutcomes :
              /\ resp' = IF o = "errorMiddleware"
                         THEN Escape("PT", b, 500, ErrorMiddleware)
                         ELSE Escape("PT", b, 0, <<>>)
              /\ proc' = IF o = "crash" THEN "crashed" ELSE proc
              /\ inflight' = IF o = "crash" THEN EmptyBag ELSE inflight
              /\ readyState' = IF o = "crash" THEN 0 ELSE readyState
              /\ UNCHANGED now
       [] check = "ok" /\ Connected ->
            /\ BagCardinality(inflight) < MaxInFlight
            /\ Stored + Pending("PT") + Pending("PU") < MaxDocs
            /\ \E t \in ClockReads :
                 /\ now' = t
                 /\ inflight' = Add(Suspend("create", "PT", b, FALSE, t))
            /\ resp' = NoResponse
            /\ UNCHANGED <<proc, readyState>>
       [] check = "ok" /\ ~Connected ->
            /\ resp' = Respond("PT", b, 201, <<[title |-> title.v, completed |-> FALSE]>>,
                               FALSE, 0, FALSE, FALSE)
            /\ UNCHANGED <<proc, inflight, now, readyState>>
  /\ UNCHANGED <<uriSet, connResult, tasks, users, lastRaw>>

CreateTaskDone(r) ==
  /\ r.kind = "PT" /\ r.pc = "create"
  /\ inflight' = Remove(r)
  /\ IF Connected
     THEN LET doc == TaskDoc(Len(tasks) + 1, r.title, r.stamp)
          IN /\ tasks' = Append(tasks, doc)
             /\ lastRaw' = r.title
             /\ resp' = Respond("PT", BodyOf(r), 201, <<doc>>, TRUE, 1, TRUE, r.after)
     ELSE LET e == OnStoreError("PT")
          IN /\ resp' = Respond("PT", BodyOf(r), e.status, e.payload, TRUE, 1, FALSE, r.after)
             /\ UNCHANGED <<tasks, lastRaw>>
  /\ UNCHANGED <<proc, uriSet, connResult, readyState, users, now>>

\* ----------------------------------------------------------- POST /api/users
PostUsers(name, email) ==
  LET b == [NoBody EXCEPT !.name = name, !.email = email]
      check == UserCheck(name, email)
  IN
  /\ Accepting
  /\ CASE check = "reject" ->
            /\ resp' = Respond("PU", b, 400, <<[error |-> "Name and email are required"]>>,
                               FALSE, 0, FALSE, FALSE)
            /\ UNCHANGED <<inflight, now>>
       [] check = "ok" /\ Connected ->
            /\ BagCardinality(inflight) < MaxInFlight
            /\ Stored + Pending("PT") + Pending("PU") < MaxDocs
            /\ inflight' = Add(Suspend("findOne", "PU", b, Follows(b), 0))
            /\ resp' = NoResponse
            /\ UNCHANGED now
       [] check = "ok" /\ ~Connected ->
            \E t \in ClockReads :
              /\ now' = t
              /\ resp' = Respond("PU", b, 201,
                                 <<[id |-> t, name |-> name.v, email |-> email.v,
                                    createdAt |-> t]>>,
                                 FALSE, 0, FALSE, Follows(b))
              /\ UNCHANGED inflight
  /\ UNCHANGED <<proc, uriSet, connResult, readyState, tasks, users, lastRaw>>

FindOneUserDone(r) ==
  /\ r.kind = "PU" /\ r.pc = "findOne"
  /\ IF ~Connected
     THEN LET e == OnStoreError("PU")
          IN /\ resp' = Respond("PU", BodyOf(r), e.status, e.payload, TRUE, 1, FALSE, r.after)
             /\ inflight' = Remove(r)
             /\ UNCHANGED now
     ELSE IF FindOneUser(r.email)
     THEN /\ resp' = Respond("PU", BodyOf(r), 409, <<[error |-> "User already exists"]>>,
                             TRUE, 1, FALSE, r.after)
          /\ inflight' = Remove(r)
          /\ UNCHANGED now
     ELSE /\ inflight' = Remove(r) (+) SetToBag({[r EXCEPT !.pc = "create"]})
          /\ resp' = NoResponse
          /\ UNCHANGED now
  /\ UNCHANGED <<proc, uriSet, connResult, readyState, tasks, users, lastRaw>>

CreateUserDone(r) ==
  /\ r.kind = "PU" /\ r.pc = "create"
  /\ inflight' = Remove(r)
  /\ IF ~Connected \/ (UniqueEmailIndex /\ FindOneUser(r.email))
     THEN LET e == OnStoreError("PU")
          IN /\ resp' = Respond("PU", BodyOf(r), e.status, e.payload, TRUE, 2, FALSE, r.after)
             /\ UNCHANGED users
     ELSE IF AfterCreateUser(r) = "insert"
     THEN LET doc == UserDoc(Len(users) + 1, r.name, r.email)
          IN /\ users' = Append(users, doc)
             /\ resp' = Respond("PU", BodyOf(r), 201, <<doc>>, TRUE, 2, TRUE, r.after)
     ELSE /\ resp' = Respond("PU", BodyOf(r), 409, <<[error |-> "User already exists"]>>,
                             TRUE, 2, FALSE, r.after)
          /\ UNCHANGED users
  /\ UNCHANGED <<proc, uriSet, connResult, readyState, tasks, now, lastRaw>>

\* ------------------------------------------------------------ specification
Next ==
  \/ ConnectDBStart
  \/ ConnectSucceed
  \/ ConnectFail
  \/ StartServer
  \/ DriverDrop
  \/ DriverReconnect
  \/ GetUsers
  \/ GetTasks
  \/ \E title \in TitleInputs : PostTasks(title)
  \/ \E name \in NameInputs, email \in EmailInputs : PostUsers(name, email)
  \/ \E r \in BagToSet(inflight) : FindUsersDone(r)
  \/ \E r \in BagToSet(inflight) : FindTasksDone(r)
  \/ \E r \in BagToSet(inflight) : CreateTaskDone(r)
  \/ \E r \in BagToSet(inflight) : FindOneUserDone(r)
  \/ \E r \in BagToSet(inflight) : CreateUserDone(r)

Spec == Init /\ [][Next]_vars

\* The connection attempt settles within serverSelectionTimeoutMS and the
\* promise chain of the startup runs to its end.
FairSpec ==
  /\ Init /\ [][Next]_vars
  /\ WF_vars(ConnectDBStart)
  /\ WF_vars(ConnectSucceed \/ ConnectFail)
  /\ WF_vars(StartServer)

\* ------------------------------------------------------------------ claims
Blank(x) ==
  \/ x.t = "undefined"
  \/ x.t = "string" /\ \A i \in 1..Len(x.v) : x.v[i] \in WhiteSpace

ListedFromStore == resp.kind = "GT" /\ resp.conn /\ resp.status = 200

\* C1 as stated: a task list read from the store after a create answered 201
\* has the created task first, under the title as submitted, not completed.
C1_ListShowsSubmittedTitleFirst ==
  ListedFromStore /\ tasks # <<>> =>
    /\ resp.payload # <<>>
    /\ resp.payload[1].title = lastRaw.v
    /\ resp.payload[1].completed = FALSE

\* C1 amended: the list holds the created task under the trimmed title, not
\* completed, and holds it first when no other stored task has a createdAt as
\* late as its own.
C1_ListShowsTrimmedTitleFirstWhenNewest ==
  ListedFromStore /\ tasks # <<>> =>
    LET d == tasks[Len(tasks)]
        p == resp.payload
    IN /\ \E i \in 1..Len(p) :
            /\ p[i].id = d.id
            /\ p[i].title = Trim(lastRaw.v)
            /\ p[i].completed = FALSE
       /\ (\A j \in 1..Len(tasks) - 1 : tasks[j].createdAt < d.createdAt)
            => p[1].id = d.id

C1_Witness ==
  /\ ListedFromStore
  /\ Len(tasks) = 2
  /\ tasks[1].createdAt < tasks[2].createdAt
  /\ lastRaw = Str(<<" ", "a">>)
  /\ resp.payload[1].id = 2
  /\ resp.payload[1].title = <<"a">>

\* C2: a task create whose title is absent, empty or whitespace-only ends with
\* 400 in every connection state, issues no store call and leaves both
\* collections as they were.
C2_BlankTitleRejected ==
  [][resp'.kind = "PT" /\ Blank(resp'.title) =>
       /\ resp'.status = 400
       /\ resp'.io = 0
       /\ ~resp'.wrote
       /\ UNCHANGED <<tasks, users, inflight>>]_vars

C2_Witness ==
  /\ resp.kind = "PT"
  /\ resp.title = Str(<<" ">>)
  /\ resp.status = 400
  /\ Connected
  /\ tasks # <<>>

\* C3: a user create that follows a create of the same email which answered
\* 201 ends with 409 and inserts nothing when both saw the store (and the
\* driver is still connected when it ends), and with 201 when both saw the
\* fallback.
C3_SecondCreateSameEmail ==
  resp.kind = "PU" /\ resp.after =>
    IF resp.conn
    THEN resp.up => resp.status = 409 /\ ~resp.wrote
    ELSE resp.status = 201 /\ ~resp.wrote

C3_Witness ==
  /\ resp.kind = "PU" /\ resp.after
  /\ resp.conn /\ resp.up
  /\ resp.status = 409
  /\ Len(users) = 1

C3_WitnessFallback ==
  resp.kind = "PU" /\ resp.after /\ ~resp.conn /\ resp.status = 201

MockTasks ==
  <<[title |-> <<"Define TypeScript interfaces (Mock)">>, completed |-> TRUE],
    [title |-> <<"Create React components (Mock)">>, completed |-> FALSE]>>

MockUsers ==
  <<[id |-> 1, name |-> <<"John Doe">>, email |-> <<"john@example.com">>],
    [id |-> 2, name |-> <<"Jane Smith">>, email |-> <<"jane@example.com">>],
    [id |-> 3, name |-> <<"Bob Johnson">>, email |-> <<"bob@example.com">>]>>

\* C4: a list answered in fallback mode is the fixed sequence of its entity
\* type, whatever creates the fallback has answered before.
C4_FallbackListFixed ==
  resp.kind \in {"GU", "GT"} /\ ~resp.conn =>
    /\ resp.status = 200
    /\ resp.io = 0
    /\ resp.payload = IF resp.kind = "GT" THEN MockTasks ELSE MockUsers

\* With no URI the clock is read by the fallback user create alone: one has
\* answered before this list.
C4_Witness ==
  /\ resp.kind = "GU" /\ ~resp.conn
  /\ ~uriSet
  /\ now > 0

\* C5 as stated: a user create with name or email absent or blank,
\* whitespace-only included, ends with 400 and no store call.
C5_BlankNameOrEmailRejected ==
  resp.kind = "PU" /\ (Blank(resp.name) \/ Blank(resp.email)) =>
    resp.status = 400 /\ resp.io = 0

\* C6: connectDB never rejects, the process ends up listening, and when no
\* URI is configured or the attempt failed the driver stays disconnected and
\* every response comes from the fallback.
C6_StartupAbsorbsConnectionOutcome ==
  /\ <>(proc = "listening")
  /\ [](connResult # "throw")
  /\ [](NoUri \/ AttemptFailed =>
          /\ readyState = 0
          /\ resp.kind # "none" => ~resp.conn /\ resp.io = 0)

C6_Witness ==
  /\ proc = "listening"
  /\ AttemptFailed
  /\ resp.kind = "GT" /\ resp.payload = MockTasks

\* C7 as stated: while the startup connection attempt is pending a request is
\* accepted and answered.
C7_AcceptsWhileAttemptPending == proc = "connecting" => ENABLED GetTasks

\* C7 amended: a request is received only once the process listens, after the
\* startup attempt has settled; a handler is suspended on a store call only
\* when it saw the driver connected, and a handler that did not see it connected
\* answers with no store call: a request received while the driver is not
\* connected ends in the step that received it.
C7_NoWaitOnceListening ==
  [][LET more == BagCardinality(inflight') > BagCardinality(inflight)
     IN /\ more \/ resp'.kind # "none" =>
             proc = "listening" /\ connResult # "pending"
        /\ more => Connected
        /\ resp'.kind # "none" /\ ~resp'.conn => resp'.io = 0]_vars

C7_Witness ==
  /\ resp.kind = "PT" /\ resp.status = 201 /\ ~resp.conn
  /\ AttemptFailed
  /\ readyState = 0

\* C8: a request that saw the driver connected and whose store call fails
\* ends with the 500 of its handler, inserts nothing, and leaves the process
\* listening.
C8_StoreFailureAnswers500 ==
  resp.kind # "none" /\ resp.conn /\ ~resp.up =>
    /\ resp.status = 500
    /\ resp.payload = <<[error |-> ErrorText(resp.kind)]>>
    /\ ~resp.wrote /\ ~resp.escaped
    /\ proc = "listening"

C8_Witness ==
  resp.kind = "PU" /\ resp.conn /\ resp.io = 2 /\ resp.status = 500

\* C9: a user create whose lookup found nothing inserts and answers 201 when
\* its insert completes, whatever has been stored since the lookup; two users
\* with one email are reachable.
C9_InsertAfterLookupUnconditional ==
  resp.kind = "PU" /\ resp.conn /\ resp.io = 2 /\ resp.up =>
    /\ resp.status = 201 /\ resp.wrote
    /\ users # <<>>
    /\ users[Len(users)].email = resp.email.v

C9_Witness ==
  /\ Len(users) = 2
  /\ users[1].email = users[2].email
  /\ resp.kind = "PU" /\ resp.status = 201 /\ resp.wrote

\* C10 as stated: every task create ends with one response, of status 400,
\* 201 or 500, sent by the handler.
C10_TaskCreateAlwaysAnswers ==
  resp.kind = "PT" => resp.status \in {400, 201, 500} /\ ~resp.escaped

====
